---- MODULE Spec2Model ----
(***************************************************************************)
(* aftonfalk: the schema model (Path, Column, Index, Table), the SQL       *)
(* synthesis (table_ddl, insert_sql, merge_ddl) and the write-mode         *)
(* orchestration of MssqlDriver (create_table, apply_indexes, append,      *)
(* truncate_write, merge, write_using_modes) against a SQL Server          *)
(* database.                                                               *)
(*                                                                         *)
(* Text: the segments of a Path are sequences of characters, because the   *)
(* validity of a path is decided character by character; column names,    *)
(* type names and SQL keywords are strings. A SQL statement is the record  *)
(* of the parts the code interpolates into its text.                       *)
(*                                                                         *)
(* Three specifications share the variables:                               *)
(*   Spec       runs of write_using_modes / merge against the database,    *)
(*              one driver call (or one raising expression) per step;      *)
(*   SpecMerge  merge_ddl on a Table and the execution of its statement    *)
(*              on a destination and a staging table;                      *)
(*   SpecCtor   the construction of Path and Table objects.                *)
(***************************************************************************)
EXTENDS Integers, Sequences, FiniteSets, TLC

VARIABLES
    db,     \* the database: its schemas and its tables with their rows
    runs,   \* the calls of the orchestrator made so far, the last one current
    clock,  \* the wall clock, in seconds
    mg,     \* SpecMerge: a Table, its merge statement, the two tables
    ctor,   \* SpecCtor: the Path and the Table constructed last
    wr      \* SpecWrite: one call of write, its row source and its batches

vars == <<db, runs, clock, mg, ctor, wr>>

(***************************************************************************)
(* Bounds.                                                                 *)
(***************************************************************************)
MaxRuns == 2        \* runs of the orchestrator in one behaviour
MaxClock == 1       \* seconds the wall clock advances
MaxTargetRows == 1  \* rows of the destination table in SpecMerge
MaxSourceRows == 2  \* rows of the staging table in SpecMerge
MaxTime == 2        \* values of the modified column
MaxGroupLen == 1    \* columns of a column group drawn in SpecCtor
MaxRows == 3        \* rows of the row source in SpecWrite
MaxBatchSize == 2   \* batch_size of write in SpecWrite

None == "None"

(***************************************************************************)
(* Characters.                                                             *)
(***************************************************************************)
LowerCase ==
    {"a","b","c","d","e","f","g","h","i","j","k","l","m",
     "n","o","p","q","r","s","t","u","v","w","x","y","z"}

UpperCase ==
    {"A","B","C","D","E","F","G","H","I","J","K","L","M",
     "N","O","P","Q","R","S","T","U","V","W","X","Y","Z"}

DigitChars == {"0","1","2","3","4","5","6","7","8","9"}

\* the class [a-zA-Z0-9_] of the pattern of path_is_valid
WordChar(c) == c \in LowerCase \cup UpperCase \cup DigitChars \cup {"_"}

SeqsUpTo(S, n) == UNION {[1..k -> S] : k \in 0..n}

(***************************************************************************)
(* Path                                                                    *)
(***************************************************************************)
\* the dataclass constructor: it stores its three arguments and checks nothing
Path(database, schema, table) ==
    [database |-> database, schema |-> schema, table |-> table]

to_str(path) == path.database \o <<".">> \o path.schema \o <<".">> \o path.table

\* re.match(r"^[a-zA-Z0-9_]+(\.[a-zA-Z0-9_]+){2}$", string): three non-empty
\* words separated by two dots
path_is_valid(string) ==
    \E i, j \in 1..Len(string) :
        /\ 1 < i /\ i + 1 < j /\ j < Len(string)
        /\ string[i] = "." /\ string[j] = "."
        /\ \A k \in 1..Len(string) : k \notin {i, j} => WordChar(string[k])

(***************************************************************************)
(* Column, Index                                                           *)
(***************************************************************************)
Column(name, data_type) ==
    [name |-> name, data_type |-> data_type, constraints |-> ""]

column_definition(col) == <<col.name, col.data_type, col.constraints>>

Index(name, index_type, columns) ==
    [name |-> name, index_type |-> index_type, columns |-> columns,
     is_unique |-> FALSE, sort_direction |-> "ASC"]

\* "_".join / ", ".join of strings
RECURSIVE join(_, _)
join(sep, strs) ==
    IF strs = <<>> THEN ""
    ELSE IF Len(strs) = 1 THEN strs[1]
    ELSE strs[1] \o sep \o join(sep, Tail(strs))

Names(columns) == [i \in 1..Len(columns) |-> columns[i].name]

\* Index.to_sql: the name of the index is made of its column names, and the
\* ON part interpolates the bound method path.to_str, not its result
to_sql(index, path) ==
    [stmt |-> "CREATE INDEX",
     unique_clause |-> IF index.is_unique THEN "UNIQUE " ELSE "",
     index_type |-> index.index_type,
     index_columns_snake |-> join("_", Names(index.columns)),
     on |-> [bound_method |-> "Path.to_str", of |-> path],
     index_columns |->
        [i \in 1..Len(index.columns) |->
            <<index.columns[i].name, index.sort_direction>>]]

(***************************************************************************)
(* Table                                                                   *)
(***************************************************************************)
DigitOf == <<"0","1","2","3","4","5","6","7","8","9">>

\* now().format('YYMMDDHHmmss') at second t of 2026-11-02 21:54
now_format(t) ==
    <<"2","6","1","1","0","2","2","1","5","4">>
        \o <<DigitOf[(t \div 10) + 1], DigitOf[(t % 10) + 1]>>

\* create_column_list with the unique columns put first
create_column_list_unique_first(default_columns, unique_columns, non_unique_columns) ==
    LET non_default_columns == default_columns \o non_unique_columns
    IN  unique_columns \o non_default_columns

\* Table.create_column_list: default, then unique, then non-unique columns
create_column_list(default_columns, unique_columns, non_unique_columns) ==
    LET non_default_columns == unique_columns \o non_unique_columns
    IN  default_columns \o non_default_columns

\* Table(...) and its __post_init__ at second t: the column list and the path
\* of the temporary table are stored; nothing is checked
Table(destination_path, write_mode, default_columns, unique_columns, non_unique_columns, indexes, t) ==
    [source_path |-> Path(<<"s","r","c">>, <<"r","a","w">>, destination_path.table),
     destination_path |-> destination_path,
     destination_data_modified_column_name |-> "data_modified",
     temp_table_schema |-> <<"I","N","T","E","R","N","A","L">>,
     enforce_primary_key |-> FALSE,
     write_mode |-> write_mode,
     temp_table_path |->
        Path(destination_path.database,
             <<"I","N","T","E","R","N","A","L">>,
             destination_path.table \o <<"_">> \o now_format(t)),
     default_columns |-> default_columns,
     unique_columns |-> unique_columns,
     non_unique_columns |-> non_unique_columns,
     indexes |-> indexes,
     _columns |->
        create_column_list(default_columns, unique_columns, non_unique_columns)]

\* Table.table_ddl(path) at second t: the column definitions, the primary key
\* constraint when enforced, and then, inside the parentheses of CREATE TABLE,
\* the CREATE INDEX statements of the indexes
table_ddl(table, path, t) ==
    LET columns_def ==
            [i \in 1..Len(table._columns) |->
                [part |-> "column", text |-> column_definition(table._columns[i])]]
        indexes_sql ==
            [i \in 1..Len(table.indexes) |-> to_sql(table.indexes[i], path)]
        pk ==
            IF table.enforce_primary_key
            THEN <<[part |-> "constraint",
                    name |-> <<"PK", join("_", Names(table.unique_columns)),
                               now_format(t)>>,
                    primary_key |-> Names(table.unique_columns)]>>
            ELSE <<>>
    IN  [stmt |-> "CREATE TABLE",
         path |-> path,
         ddl_parts |->
            columns_def \o pk \o <<[part |-> "indexes", text |-> indexes_sql]>>]

\* Table.insert_sql(): it has no path parameter and names the destination path
insert_sql(table) ==
    [stmt |-> "INSERT INTO",
     path |-> table.destination_path,
     column_names |-> Names(table._columns),
     placeholders |-> [i \in 1..Len(table._columns) |-> "?"]]

TypeError == [raised |-> "TypeError"]

\* the call table.insert_sql(**kwargs): the method takes self and nothing
\* else, so a call that passes a keyword argument raises TypeError
Table_insert_sql(table, kwargs) ==
    IF kwargs = <<>> THEN insert_sql(table) ELSE TypeError

(***************************************************************************)
(* MssqlDriver.merge_ddl                                                   *)
(***************************************************************************)
ValueError == [raised |-> "ValueError"]

\* merge_ddl without the comparison of the modified columns in the ON clause
merge_ddl_unguarded(table) ==
    LET update_columns == table.non_unique_columns \o table.default_columns
    IN  IF table.unique_columns = <<>> \/ update_columns = <<>>
        THEN ValueError
        ELSE
            [stmt |-> "MERGE INTO",
             target |-> table.destination_path,
             source |-> table.temp_table_path,
             on_conditions |->
                [i \in 1..Len(table.unique_columns) |->
                    [left |-> <<"target", table.unique_columns[i].name>>,
                     op |-> "=",
                     right |-> <<"source", table.unique_columns[i].name>>]],
             update_clause |->
                [i \in 1..Len(update_columns) |->
                    [left |-> <<"target", update_columns[i].name>>,
                     right |-> <<"source", update_columns[i].name>>]],
             insert_columns |-> Names(table._columns),
             insert_values |->
                [i \in 1..Len(table._columns) |->
                    <<"source", table._columns[i].name>>]]

\* merge_ddl updating the non-unique columns only
merge_ddl_non_unique_only(table) ==
    LET update_columns == table.non_unique_columns
        modified == table.destination_data_modified_column_name
    IN  IF table.unique_columns = <<>> \/ update_columns = <<>>
        THEN ValueError
        ELSE
            [stmt |-> "MERGE INTO",
             target |-> table.destination_path,
             source |-> table.temp_table_path,
             on_conditions |->
                [i \in 1..Len(table.unique_columns) |->
                    [left |-> <<"target", table.unique_columns[i].name>>,
                     op |-> "=",
                     right |-> <<"source", table.unique_columns[i].name>>]]
                \o <<[left |-> <<"source", modified>>,
                      op |-> ">=",
                      right |-> <<"target", modified>>]>>,
             update_clause |->
                [i \in 1..Len(update_columns) |->
                    [left |-> <<"target", update_columns[i].name>>,
                     right |-> <<"source", update_columns[i].name>>]],
             insert_columns |-> Names(table._columns),
             insert_values |->
                [i \in 1..Len(table._columns) |->
                    <<"source", table._columns[i].name>>]]

merge_ddl(table) ==
    LET update_columns == table.non_unique_columns \o table.default_columns
        modified == table.destination_data_modified_column_name
    IN  IF table.unique_columns = <<>> \/ update_columns = <<>>
        THEN ValueError
        ELSE
            [stmt |-> "MERGE INTO",
             target |-> table.destination_path,
             source |-> table.temp_table_path,
             on_conditions |->
                [i \in 1..Len(table.unique_columns) |->
                    [left |-> <<"target", table.unique_columns[i].name>>,
                     op |-> "=",
                     right |-> <<"source", table.unique_columns[i].name>>]]
                \o <<[left |-> <<"source", modified>>,
                      op |-> ">=",
                      right |-> <<"target", modified>>]>>,
             update_clause |->
                [i \in 1..Len(update_columns) |->
                    [left |-> <<"target", update_columns[i].name>>,
                     right |-> <<"source", update_columns[i].name>>]],
             insert_columns |-> Names(table._columns),
             insert_values |->
                [i \in 1..Len(table._columns) |->
                    <<"source", table._columns[i].name>>]]

(***************************************************************************)
(* The database. A table is the bag of its rows: a function from the rows  *)
(* it holds to the number of copies. A row is a function from column names *)
(* to values. An index is a row of sys.indexes: its name and its table.    *)
(***************************************************************************)
EmptyBag == [r \in {} |-> 0]

Copies(bag, row) == IF row \in DOMAIN bag THEN bag[row] ELSE 0

RECURSIVE SumOver(_, _)
SumOver(f, S) ==
    IF S = {} THEN 0
    ELSE LET x == CHOOSE y \in S : TRUE IN f[x] + SumOver(f, S \ {x})

BagSize(bag) == SumOver(bag, DOMAIN bag)

\* sys.tables joined with sys.schemas on the names of the path
table_exists(d, path) == path \in DOMAIN d.tables

\* sys.schemas of the database of the path
schema_exists(d, path) == <<path.database, path.schema>> \in d.schemas

\* the rows of the table at path, none when there is no such table
RowsOf(d, path) == IF table_exists(d, path) THEN DOMAIN d.tables[path] ELSE {}

\* DROP TABLE <path>: the table goes, and its indexes with it
DropTableSql(d, path) ==
    [d EXCEPT !.tables = [p \in DOMAIN d.tables \ {path} |-> d.tables[p]],
              !.indexes = {ix \in d.indexes : ix.path # path}]

\* USE <database>; CREATE SCHEMA <schema>
CreateSchemaSql(d, path) ==
    [d EXCEPT !.schemas = d.schemas \cup {<<path.database, path.schema>>}]

\* CREATE TABLE: the engine accepts column definitions and constraints between
\* the parentheses, and no CREATE INDEX statement
DdlAccepted(ddl) ==
    \A i \in 1..Len(ddl.ddl_parts) :
        ddl.ddl_parts[i].part = "indexes" => ddl.ddl_parts[i].text = <<>>

CreateTableSql(d, ddl) ==
    [d EXCEPT !.tables =
        [p \in DOMAIN d.tables \cup {ddl.path} |->
            IF p = ddl.path THEN EmptyBag ELSE d.tables[p]]]

(***************************************************************************)
(* The Tables and the databases the runs of Spec start from.               *)
(***************************************************************************)
DestPath == Path(<<"d","b">>, <<"s","c","h">>, <<"t","b","l">>)

ColModified == Column("data_modified", "DATETIMEOFFSET")
ColId == Column("id", "INT")
ColName == Column("name", "NVARCHAR")

IxId == Index("ix", "NONCLUSTERED", <<ColId>>)

\* WriteMode
WriteModes == {"APPEND", "TRUNCATE_WRITE", "MERGE"}

\* default, unique and non-unique columns and indexes of a run's Table
RunShapes ==
    { <<<<ColModified>>, <<ColId>>, <<ColName>>, <<>>>>,
      <<<<ColModified>>, <<ColId>>, <<ColName>>, <<IxId>>>>,
      <<<<ColModified>>, <<>>, <<ColName>>, <<>>>>,
      <<<<>>, <<ColId>>, <<>>, <<>>>> }

OldRow == [data_modified |-> 1, id |-> 1, name |-> "a"]

InitDbs ==
    { [schemas |-> S, tables |-> T, indexes |-> I] :
        S \in SUBSET {<<DestPath.database, DestPath.schema>>,
                      <<DestPath.database, <<"I","N","T","E","R","N","A","L">>>>},
        T \in { [p \in {} |-> EmptyBag],
                [p \in {DestPath} |-> EmptyBag],
                [p \in {DestPath} |-> [r \in {OldRow} |-> 1]] },
        I \in { {}, {[path |-> DestPath, name |-> "id"]} } }

SchemasOfTables(d) == {<<p.database, p.schema>> : p \in DOMAIN d.tables}

TablesOfIndexes(d) == {ix.path : ix \in d.indexes}

\* the table at path has an index of the name derived from the columns of index
IndexOn(d, path, index) ==
    [path |-> path, name |-> join("_", Names(index.columns))] \in d.indexes

(***************************************************************************)
(* A run: one call of write_using_modes or of merge. pc is the driver call *)
(* the run makes next, log the driver calls it has made, exc the exception *)
(* that ended it, start the database it started from.                      *)
(***************************************************************************)
Ended(run) == run.pc.step \in {"raised", "returned"}

Active(r) == r \in DOMAIN runs /\ ~Ended(runs[r])

\* the path the current create_table / apply_indexes works on
PathAt(run) ==
    IF run.pc.phase = "destination"
    THEN run.table.destination_path
    ELSE run.table.temp_table_path

\* drop_first of the current create_table: only the destination's can be set
DropFirstAt(run) ==
    IF run.pc.phase = "destination" THEN run.drop_first ELSE FALSE

Called(run, op, path, ok) ==
    [run EXCEPT !.log = Append(run.log, [op |-> op, path |-> path, ok |-> ok])]

\* the run stays at the step it was at
Goto_nowhere(run, step) == run

Goto(run, step) == [run EXCEPT !.pc.step = step]

\* the exception is noted and the run goes on with the step it was at
Raise_and_retry(run, exc) == [run EXCEPT !.exc = exc]

\* an exception leaves the orchestrator: nothing catches it
Raise(run, exc) == [run EXCEPT !.pc.step = "raised", !.exc = exc]

\* write_using_modes: the method the write mode selects
Dispatch(write_mode) ==
    CASE write_mode = "APPEND" -> "append"
      [] write_mode = "TRUNCATE_WRITE" -> "truncate_write"
      [] write_mode = "MERGE" -> "merge"

\* append passing drop_first=True to create_table, as truncate_write does
DropFirstOf_append_drops(method, drop_destination_first) ==
    CASE method = "append" -> TRUE
      [] method = "truncate_write" -> TRUE
      [] method = "merge" -> drop_destination_first

\* truncate_write passing no drop_first to create_table
DropFirstOf_default(method, drop_destination_first) ==
    CASE method = "append" -> FALSE
      [] method = "truncate_write" -> FALSE
      [] method = "merge" -> drop_destination_first

\* drop_first of the destination's create_table in each method
DropFirstOf(method, drop_destination_first) ==
    CASE method = "append" -> FALSE
      [] method = "truncate_write" -> TRUE
      [] method = "merge" -> drop_destination_first

NewRun(table, method, drop_destination_first, d) ==
    [table |-> table,
     method |-> method,
     drop_first |-> DropFirstOf(method, drop_destination_first),
     pc |-> [phase |-> "destination", step |-> "table_exists"],
     exc |-> None,
     log |-> <<>>,
     start |-> d]

(***************************************************************************)
(* create_table(path, ddl, drop_first), one driver call per action.        *)
(***************************************************************************)
\* create_table without the early return for a table that exists
AfterTableExists_no_return(exists, drop_first) ==
    IF exists /\ drop_first THEN "drop" ELSE "schema_exists"

\* what follows _table_exists: return, drop the table, or go on to create it
AfterTableExists(exists, drop_first) ==
    IF exists
    THEN IF ~drop_first THEN "apply_indexes" ELSE "drop"
    ELSE "schema_exists"

\* _create_schema that goes on to the CREATE TABLE whatever _schema_exists says
AfterSchemaExists_unchecked(exists) == "execute_ddl"

\* _create_schema: create the schema only when it does not exist
AfterSchemaExists(exists) == IF exists THEN "execute_ddl" ELSE "create_schema"

TableExists(r) ==
    /\ Active(r)
    /\ runs[r].pc.step = "table_exists"
    /\ LET run == runs[r]
           path == PathAt(run)
       IN  \/ runs' = [runs EXCEPT ![r] =
                  Raise(Called(run, "_table_exists", path, FALSE), "DriverError")]
           \/ runs' = [runs EXCEPT ![r] =
                  Goto(Called(run, "_table_exists", path, TRUE),
                       AfterTableExists(table_exists(db, path), DropFirstAt(run)))]
    /\ UNCHANGED <<db, clock, mg, ctor, wr>>

DropTable(r) ==
    /\ Active(r)
    /\ runs[r].pc.step = "drop"
    /\ LET run == runs[r]
           path == PathAt(run)
       IN  \/ /\ runs' = [runs EXCEPT ![r] =
                    Raise(Called(run, "DROP TABLE", path, FALSE), "DriverError")]
              /\ db' = db
           \/ /\ table_exists(db, path)
              /\ runs' = [runs EXCEPT ![r] =
                    Goto(Called(run, "DROP TABLE", path, TRUE), "schema_exists")]
              /\ db' = DropTableSql(db, path)
    /\ UNCHANGED <<clock, mg, ctor, wr>>

SchemaExists(r) ==
    /\ Active(r)
    /\ runs[r].pc.step = "schema_exists"
    /\ LET run == runs[r]
           path == PathAt(run)
       IN  \/ runs' = [runs EXCEPT ![r] =
                  Raise(Called(run, "_schema_exists", path, FALSE), "DriverError")]
           \/ runs' = [runs EXCEPT ![r] =
                  Goto(Called(run, "_schema_exists", path, TRUE),
                       AfterSchemaExists(schema_exists(db, path)))]
    /\ UNCHANGED <<db, clock, mg, ctor, wr>>

CreateSchemaInOneGo(r) ==
    /\ Active(r)
    /\ runs[r].pc.step = "create_schema"
    /\ LET run == runs[r]
           path == PathAt(run)
       IN  \/ /\ runs' = [runs EXCEPT ![r] =
                    Raise(Called(run, "CREATE SCHEMA", path, FALSE), "DriverError")]
              /\ db' = db
           \/ /\ ~schema_exists(db, path)
              /\ runs' = [runs EXCEPT ![r] =
                    Goto(Called(run, "CREATE SCHEMA", path, TRUE), "execute_ddl")]
              /\ db' = CreateSchemaSql(db, path)
    /\ UNCHANGED <<clock, mg, ctor, wr>>

\* self.execute(sql=ddl), the ddl being table.table_ddl(path=path)
ExecuteDdl(r) ==
    /\ Active(r)
    /\ runs[r].pc.step = "execute_ddl"
    /\ LET run == runs[r]
           path == PathAt(run)
           ddl == table_ddl(run.table, path, clock)
       IN  \/ /\ runs' = [runs EXCEPT ![r] =
                    Raise(Called(run, "CREATE TABLE", ddl.path, FALSE), "DriverError")]
              /\ db' = db
           \/ /\ DdlAccepted(ddl)
              /\ schema_exists(db, ddl.path)
              /\ ~table_exists(db, ddl.path)
              /\ runs' = [runs EXCEPT ![r] =
                    Goto(Called(run, "CREATE TABLE", ddl.path, TRUE), "apply_indexes")]
              /\ db' = CreateTableSql(db, ddl)
    /\ UNCHANGED <<clock, mg, ctor, wr>>

(***************************************************************************)
(* apply_indexes, and what follows it in append, truncate_write and merge. *)
(***************************************************************************)
\* after apply_indexes: merge goes on to the temporary table, and every method
\* then builds the INSERT statement
AfterApplyIndexes(method, phase) ==
    IF method = "merge" /\ phase = "destination"
    THEN [phase |-> "staging", step |-> "table_exists"]
    ELSE [phase |-> phase, step |-> "insert_sql"]

\* for index in table.indexes: index.index_name(path=path) is evaluated first,
\* and Index has no attribute index_name
ApplyIndexes(r) ==
    /\ Active(r)
    /\ runs[r].pc.step = "apply_indexes"
    /\ LET run == runs[r]
       IN  \/ /\ run.table.indexes # <<>>
              /\ runs' = [runs EXCEPT ![r] = Raise(run, "AttributeError")]
           \/ /\ run.table.indexes = <<>>
              /\ runs' = [runs EXCEPT ![r] =
                    [run EXCEPT !.pc = AfterApplyIndexes(run.method, run.pc.phase)]]
    /\ UNCHANGED <<db, clock, mg, ctor, wr>>

\* table.insert_sql(path=...), the argument of self.write: insert_sql takes no
\* parameter path, so the call raises TypeError before write is entered
InsertSql(r) ==
    /\ Active(r)
    /\ runs[r].pc.step = "insert_sql"
    /\ runs' = [runs EXCEPT ![r] = Raise(runs[r], "TypeError")]
    /\ UNCHANGED <<db, clock, mg, ctor, wr>>

(***************************************************************************)
(* The calls. The first run constructs its Table; a later run is made with *)
(* the same configuration, its Table constructed at the time of the call.  *)
(***************************************************************************)
Start(r, shape, write_mode, direct_merge, t) ==
    LET table == Table(DestPath, write_mode, shape[1], shape[2], shape[3], shape[4], t)
    IN  /\ clock' = t
        /\ runs' = Append(runs,
              IF direct_merge
              THEN NewRun(table, "merge", TRUE, db)
              ELSE NewRun(table, Dispatch(write_mode), FALSE, db))

ShapeOf(table) ==
    <<table.default_columns, table.unique_columns, table.non_unique_columns,
      table.indexes>>

\* write_using_modes(table, data), or merge(table, data, drop_destination_first=True)
Call(r) ==
    /\ r = Len(runs) + 1
    /\ r <= MaxRuns
    /\ \A q \in DOMAIN runs : Ended(runs[q])
    /\ \E t \in clock..MaxClock :
        IF r = 1
        THEN \E shape \in RunShapes, write_mode \in WriteModes, direct \in BOOLEAN :
                /\ direct => write_mode = "MERGE"
                /\ Start(r, shape, write_mode, direct, t)
        ELSE Start(r, ShapeOf(runs[1].table), runs[1].table.write_mode,
                   runs[1].method = "merge" /\ runs[1].drop_first, t)
    /\ UNCHANGED <<db, mg, ctor, wr>>

Idle == [status |-> "idle"]

Init ==
    /\ db \in InitDbs
    /\ SchemasOfTables(db) \subseteq db.schemas
    /\ TablesOfIndexes(db) \subseteq DOMAIN db.tables
    /\ runs = <<>>
    /\ wr = Idle
    /\ clock = 0
    /\ mg = Idle
    /\ ctor = Idle

Step(r) ==
    \/ TableExists(r)
    \/ DropTable(r)
    \/ SchemaExists(r)
    \/ CreateSchemaInOneGo(r)
    \/ ExecuteDdl(r)
    \/ ApplyIndexes(r)
    \/ InsertSql(r)

Next == \E r \in 1..MaxRuns : Call(r) \/ Step(r)

Spec == Init /\ [][Next]_vars

(***************************************************************************)
(* What the log of a run tells.                                            *)
(***************************************************************************)
\* the positions of the log where statement op was issued against path
Issued(run, op, path) ==
    {i \in DOMAIN run.log : run.log[i].op = op /\ run.log[i].path = path}

Succeeded(run, op, path) == {i \in Issued(run, op, path) : run.log[i].ok}

NoDriverFailure(run) == \A i \in DOMAIN run.log : run.log[i].ok

UpdateColumns(table) == table.non_unique_columns \o table.default_columns

MergeConfigured(table) ==
    table.unique_columns # <<>> /\ UpdateColumns(table) # <<>>

\* the run is past the create_table of its destination
PastDestinationCreate(run) ==
    \/ run.pc.phase = "staging"
    \/ run.pc.step \in {"apply_indexes", "insert_sql", "returned"}
    \/ run.exc \in {"AttributeError", "TypeError", "ValueError"}

(***************************************************************************)
(* C1: every MERGE run performs, in this order, (1) the creation of the    *)
(* destination, (2) the creation of the staging table, (3) the INSERT of   *)
(* the rows into the staging table, (4) the MERGE statement and (5) the    *)
(* DROP of the staging table. Stated for the runs that no driver failure   *)
(* ended, of a Table that has unique and update columns and no index.      *)
(***************************************************************************)
C1_MergeRunsAllFiveSteps ==
    \A r \in DOMAIN runs :
        LET run == runs[r]
            stg == run.table.temp_table_path
        IN  ( /\ run.method = "merge"
              /\ MergeConfigured(run.table)
              /\ run.table.indexes = <<>>
              /\ Ended(run)
              /\ NoDriverFailure(run) )
            => \E i, j, k \in DOMAIN run.log :
                /\ i < j /\ j < k
                /\ run.log[i].op = "INSERT INTO" /\ run.log[i].path = stg
                /\ run.log[j].op = "MERGE INTO"
                /\ run.log[k].op = "DROP TABLE" /\ run.log[k].path = stg
                /\ \A c \in Issued(run, "CREATE TABLE", stg) : c < i

(***************************************************************************)
(* C4: create_table is idempotent under APPEND and MERGE. A run of append, *)
(* or of merge without drop-first, that starts with the destination table  *)
(* present issues no CREATE TABLE for it; and of two consecutive APPEND     *)
(* runs against an absent destination, the first of them without a driver  *)
(* failure, the first issues exactly one CREATE TABLE and the second none.  *)
(***************************************************************************)
C4_CreateTableIdempotent ==
    /\ \A r \in DOMAIN runs :
        LET run == runs[r]
            dest == run.table.destination_path
        IN  ( /\ run.method \in {"append", "merge"}
              /\ ~run.drop_first
              /\ table_exists(run.start, dest) )
            => Issued(run, "CREATE TABLE", dest) = {}
    /\ ( /\ Len(runs) >= 2
         /\ runs[1].method = "append"
         /\ ~table_exists(runs[1].start, runs[1].table.destination_path)
         /\ NoDriverFailure(runs[1]) )
       => /\ Cardinality(Issued(runs[1], "CREATE TABLE",
                                runs[1].table.destination_path)) = 1
          /\ Issued(runs[2], "CREATE TABLE", runs[2].table.destination_path) = {}

\* the second of two APPEND runs has ended, the first having created the table
C4_Witness ==
    /\ Len(runs) >= 2
    /\ runs[1].method = "append"
    /\ ~table_exists(runs[1].start, runs[1].table.destination_path)
    /\ NoDriverFailure(runs[1])
    /\ PastDestinationCreate(runs[2])
    /\ NoDriverFailure(runs[2])

(***************************************************************************)
(* C5: a TRUNCATE_WRITE run drops the destination table exactly when it    *)
(* was present at the start of the run and then creates it: once the run   *)
(* is past create_table it has issued one DROP TABLE if the table was      *)
(* there and none otherwise, then exactly one CREATE TABLE, and until the   *)
(* next run starts the table holds no row it held before the run.          *)
(***************************************************************************)
C5_TruncateWriteDropsAndCreates ==
    \A r \in DOMAIN runs :
        LET run == runs[r]
            dest == run.table.destination_path
            drops == Issued(run, "DROP TABLE", dest)
            creates == Issued(run, "CREATE TABLE", dest)
        IN  run.method = "truncate_write" =>
            /\ drops # {} => table_exists(run.start, dest)
            /\ (PastDestinationCreate(run) /\ NoDriverFailure(run)) =>
                /\ Cardinality(drops) =
                        IF table_exists(run.start, dest) THEN 1 ELSE 0
                /\ Cardinality(creates) = 1
                /\ \A i \in drops, j \in creates : i < j
                /\ r = Len(runs) =>
                    /\ table_exists(db, dest)
                    /\ \A row \in RowsOf(run.start, dest) :
                            Copies(db.tables[dest], row) = 0

\* a TRUNCATE_WRITE run that found rows in the destination is where the rows
\* would be streamed
C5_Witness ==
    \E r \in DOMAIN runs :
        /\ runs[r].method = "truncate_write"
        /\ RowsOf(runs[r].start, DestPath) # {}
        /\ runs[r].pc.step = "insert_sql"
        /\ NoDriverFailure(runs[r])

(***************************************************************************)
(* C6: a MERGE run without drop-first that starts with the destination     *)
(* table present issues no DROP and no CREATE against the destination      *)
(* schema or table, creates only the staging table and drops it, so that   *)
(* the staging table no longer exists when the run is over. Stated for the *)
(* runs that no driver failure ended, of a Table that has unique and       *)
(* update columns and no index.                                            *)
(***************************************************************************)
C6_MergeTouchesOnlyStaging ==
    \A r \in DOMAIN runs :
        LET run == runs[r]
            dest == run.table.destination_path
            stg == run.table.temp_table_path
        IN  ( /\ run.method = "merge"
              /\ ~run.drop_first
              /\ table_exists(run.start, dest)
              /\ MergeConfigured(run.table)
              /\ run.table.indexes = <<>> )
            => /\ \A i \in DOMAIN run.log :
                    run.log[i].op \in {"DROP TABLE", "CREATE TABLE", "CREATE SCHEMA"}
                        => run.log[i].path = stg
               /\ (Ended(run) /\ NoDriverFailure(run) /\ r = Len(runs))
                    => ~table_exists(db, stg)

(***************************************************************************)
(* C7: a driver failure halts the run where it is, with no rollback and no *)
(* retry. The step that fails changes nothing in the database; a run that  *)
(* an exception has ended issues no further driver call; and the staging   *)
(* table that a MERGE run created is still there when an exception has     *)
(* ended the run.                                                          *)
(***************************************************************************)
C7_Halted ==
    \A r \in DOMAIN runs :
        /\ (runs[r].exc = None /\ runs'[r].exc = "DriverError") =>
            /\ db' = db
            /\ Len(runs'[r].log) = Len(runs[r].log) + 1
            /\ ~runs'[r].log[Len(runs'[r].log)].ok
        /\ runs[r].exc # None => runs'[r] = runs[r]

C7_StagingLeft ==
    \A r \in DOMAIN runs :
        LET run == runs[r]
            stg == run.table.temp_table_path
        IN  ( /\ run.method = "merge"
              /\ run.exc # None
              /\ Succeeded(run, "CREATE TABLE", stg) # {} )
            => table_exists(db, stg)

C7_FailureHaltsRun == [][C7_Halted]_vars /\ []C7_StagingLeft

\* a run that had created the schema and the table of the destination was
\* ended by a driver failure on the staging side, and a later run exists
C7_Witness ==
    \E r \in DOMAIN runs :
        /\ runs[r].exc = "DriverError"
        /\ Succeeded(runs[r], "CREATE TABLE", runs[r].table.destination_path) # {}
        /\ table_exists(db, runs[r].table.destination_path)
        /\ runs[r].pc.phase = "staging"
        /\ r < Len(runs)

(***************************************************************************)
(* C8: a MERGE run of a Table without a unique column or without an update *)
(* column (default or non-unique) is refused before any I/O: it issues no  *)
(* driver call.                                                            *)
(***************************************************************************)
C8_MergeConfigCheckedBeforeIO ==
    \A r \in DOMAIN runs :
        (runs[r].method = "merge" /\ ~MergeConfigured(runs[r].table))
            => runs[r].log = <<>>

(***************************************************************************)
(* The MERGE statement, as SQL Server executes it: a source row and a      *)
(* target row match when every condition of the ON clause holds; a target  *)
(* row matched by one source row is updated from it, a target row matched  *)
(* by several fails the statement; a source row that matches no target row *)
(* is inserted.                                                            *)
(***************************************************************************)
Range(f) == {f[i] : i \in DOMAIN f}

\* the value of <<alias, column>> for target row t and source row s
Val(ref, t, s) == IF ref[1] = "target" THEN t[ref[2]] ELSE s[ref[2]]

Holds(cond, t, s) ==
    IF cond.op = "="
    THEN Val(cond.left, t, s) = Val(cond.right, t, s)
    ELSE Val(cond.left, t, s) >= Val(cond.right, t, s)

OnMatch(stmt, t, s) ==
    \A i \in DOMAIN stmt.on_conditions : Holds(stmt.on_conditions[i], t, s)

\* the columns the statement names
ColumnsNamed(stmt) ==
    {stmt.on_conditions[i].left[2] : i \in DOMAIN stmt.on_conditions}
        \cup {stmt.on_conditions[i].right[2] : i \in DOMAIN stmt.on_conditions}
        \cup {stmt.update_clause[i].left[2] : i \in DOMAIN stmt.update_clause}
        \cup {stmt.update_clause[i].right[2] : i \in DOMAIN stmt.update_clause}
        \cup Range(stmt.insert_columns)
        \cup {stmt.insert_values[i][2] : i \in DOMAIN stmt.insert_values}

Matching(stmt, t, source) == {s \in DOMAIN source : OnMatch(stmt, t, s)}

Unmatched(stmt, target, source) ==
    {s \in DOMAIN source : \A t \in DOMAIN target : ~OnMatch(stmt, t, s)}

\* WHEN MATCHED THEN UPDATE SET ...
UpdateSet(stmt, t, s) ==
    [c \in DOMAIN t |->
        IF \E i \in DOMAIN stmt.update_clause : stmt.update_clause[i].left[2] = c
        THEN LET i == CHOOSE k \in DOMAIN stmt.update_clause :
                        stmt.update_clause[k].left[2] = c
             IN  s[stmt.update_clause[i].right[2]]
        ELSE t[c]]

\* WHEN NOT MATCHED THEN INSERT (...) VALUES (...)
InsertValues(stmt, s) ==
    [c \in Range(stmt.insert_columns) |->
        LET i == CHOOSE k \in DOMAIN stmt.insert_columns : stmt.insert_columns[k] = c
        IN  s[stmt.insert_values[i][2]]]

RowAfter(stmt, t, source) ==
    IF Matching(stmt, t, source) = {}
    THEN t
    ELSE UpdateSet(stmt, t, CHOOSE s \in Matching(stmt, t, source) : TRUE)

\* the statement fails when it names a column the tables do not have, or when
\* it would update a target row more than once
MergeAccepted(stmt, columns, target, source) ==
    /\ ColumnsNamed(stmt) \subseteq columns
    /\ \A t \in DOMAIN target : SumOver(source, Matching(stmt, t, source)) <= 1

MergeSql(stmt, target, source) ==
    LET rows == {RowAfter(stmt, t, source) : t \in DOMAIN target}
                    \cup {InsertValues(stmt, s) : s \in Unmatched(stmt, target, source)}
    IN  [row \in rows |->
            SumOver(target, {t \in DOMAIN target : RowAfter(stmt, t, source) = row})
          + SumOver(source, {s \in Unmatched(stmt, target, source) :
                                InsertValues(stmt, s) = row})]

(***************************************************************************)
(* SpecMerge: merge_ddl of a Table and the execution of its statement, as  *)
(* merge does after the rows are in the staging table.                     *)
(***************************************************************************)
\* default, unique and non-unique columns of the Tables of SpecMerge
MergeShapes ==
    { <<d, u, n>> :
        d \in {<<>>, <<ColModified>>},
        u \in {<<>>, <<ColId>>},
        n \in {<<>>, <<ColName>>} }
    \cup { <<<<ColModified>>, <<ColId, ColName>>, <<>>>> }

ValuesOf(name) ==
    CASE name = "data_modified" -> 1..MaxTime
      [] name = "id" -> {1, 2}
      [] name = "name" -> {"a", "b"}

\* the rows over the columns named: every column a value of its own
RECURSIVE RowsOver(_)
RowsOver(names) ==
    IF names = {}
    THEN {[c \in {} |-> 0]}
    ELSE LET n == CHOOSE x \in names : TRUE
         IN  {[c \in names |-> IF c = n THEN v ELSE row[c]] :
                row \in RowsOver(names \ {n}), v \in ValuesOf(n)}

\* the bags of at most n rows
BagsOf(rows, n) ==
    {bag \in UNION {[S -> 1..n] : S \in {X \in SUBSET rows : Cardinality(X) <= n}} :
        BagSize(bag) <= n}

InitMerge ==
    /\ db = [schemas |-> {}, tables |-> [p \in {} |-> EmptyBag], indexes |-> {}]
    /\ runs = <<>>
    /\ wr = Idle
    /\ clock = 0
    /\ ctor = Idle
    /\ \E shape \in MergeShapes :
        LET table == Table(DestPath, "MERGE", shape[1], shape[2], shape[3], <<>>, 0)
            rows == RowsOver(Range(Names(table._columns)))
        IN  \E target \in BagsOf(rows, MaxTargetRows),
               source \in BagsOf(rows, MaxSourceRows) :
                mg = [status |-> "staged", table |-> table, stmt |-> Idle,
                      target |-> target, source |-> source, before |-> target]

\* merge_sql = self.merge_ddl(table=table); self.execute(sql=merge_sql)
ExecuteMerge ==
    /\ mg.status = "staged"
    /\ LET stmt == merge_ddl(mg.table)
       IN  \/ /\ stmt = ValueError
              /\ mg' = [mg EXCEPT !.status = "ValueError"]
           \/ /\ stmt # ValueError
              /\ mg' = [mg EXCEPT !.status = "DriverError", !.stmt = stmt]
           \/ /\ stmt # ValueError
              /\ MergeAccepted(stmt, Range(Names(mg.table._columns)), mg.target, mg.source)
              /\ mg' = [mg EXCEPT !.status = "merged", !.stmt = stmt,
                                  !.target = MergeSql(stmt, mg.target, mg.source)]
    /\ UNCHANGED <<db, runs, clock, ctor, wr>>

NextMerge == ExecuteMerge

SpecMerge == InitMerge /\ [][NextMerge]_vars

(***************************************************************************)
(* The words of the claims about the merge.                                *)
(***************************************************************************)
\* the two rows have the same values in every unique column
SameKey(table, t, s) ==
    \A i \in DOMAIN table.unique_columns :
        t[table.unique_columns[i].name] = s[table.unique_columns[i].name]

ModifiedOf(table, row) == row[table.destination_data_modified_column_name]

\* target row t with its default and non-unique columns taken from s
AppliedUpdate(table, t, s) ==
    [c \in DOMAIN t |->
        IF c \in Range(Names(table.default_columns))
                    \cup Range(Names(table.non_unique_columns))
        THEN s[c]
        ELSE t[c]]

(***************************************************************************)
(* C2: the merge is monotonic in the modified column. When the statement   *)
(* has executed, a destination row for which every staging row of the same *)
(* unique key is older is still there, unchanged; and a destination row    *)
(* with a staging row of the same key that is as new or newer, an equal     *)
(* modified value included, has been updated from that staging row.         *)
(***************************************************************************)
C2_MergeMonotonic ==
    mg.status = "merged" =>
        \A t \in {row \in DOMAIN mg.before :
                    mg.table.destination_data_modified_column_name \in DOMAIN row} :
            LET not_older ==
                    {s \in DOMAIN mg.source :
                        /\ SameKey(mg.table, t, s)
                        /\ ModifiedOf(mg.table, s) >= ModifiedOf(mg.table, t)}
            IN  /\ not_older = {} => Copies(mg.target, t) >= Copies(mg.before, t)
                /\ \A s \in not_older :
                    /\ Copies(mg.target, AppliedUpdate(mg.table, t, s))
                            >= Copies(mg.before, t)
                    /\ AppliedUpdate(mg.table, t, s) # t => Copies(mg.target, t) = 0

\* the statement has executed on a destination row that has, under its key, a
\* staging row with an equal modified value and other data, and an older one
C2_Witness ==
    /\ mg.status = "merged"
    /\ \E t \in DOMAIN mg.before, s, o \in DOMAIN mg.source :
        /\ SameKey(mg.table, t, s) /\ SameKey(mg.table, t, o)
        /\ ModifiedOf(mg.table, s) = ModifiedOf(mg.table, t)
        /\ s # t
        /\ ModifiedOf(mg.table, o) < ModifiedOf(mg.table, t)

(***************************************************************************)
(* C3: whenever merge_ddl produces a statement, its ON clause holds        *)
(* target.c = source.c for every unique column c and the guard             *)
(* source.<modified> >= target.<modified>, its UPDATE SET covers exactly   *)
(* the default and non-unique columns, and its INSERT lists the columns    *)
(* default, then unique, then non-unique, with source.c as the value of c. *)
(***************************************************************************)
C3_MergeDdlClauses ==
    mg.status \in {"merged", "DriverError"} =>
        LET table == mg.table
            stmt == mg.stmt
            modified == table.destination_data_modified_column_name
            all == table.default_columns \o table.unique_columns
                        \o table.non_unique_columns
        IN  /\ \A i \in DOMAIN table.unique_columns :
                    [left |-> <<"target", table.unique_columns[i].name>>,
                     op |-> "=",
                     right |-> <<"source", table.unique_columns[i].name>>]
                        \in Range(stmt.on_conditions)
            /\ [left |-> <<"source", modified>>, op |-> ">=",
                right |-> <<"target", modified>>] \in Range(stmt.on_conditions)
            /\ Range(stmt.update_clause) =
                    {[left |-> <<"target", c>>, right |-> <<"source", c>>] :
                        c \in Range(Names(table.default_columns))
                                \cup Range(Names(table.non_unique_columns))}
            /\ stmt.insert_columns = [i \in DOMAIN all |-> all[i].name]
            /\ stmt.insert_values = [i \in DOMAIN all |-> <<"source", all[i].name>>]

\* a statement was produced for a Table with two unique columns and a default one
C3_Witness ==
    /\ mg.status = "merged"
    /\ Len(mg.table.unique_columns) = 2
    /\ mg.table.default_columns # <<>>
    /\ mg.stmt.stmt = "MERGE INTO"

(***************************************************************************)
(* C14: when the staging table holds two rows of the same unique key with  *)
(* modified values T1 < T2 (and the destination holds no newer row of that *)
(* key), then after the merge statement has executed the destination has a *)
(* row of that key, and every destination row of that key carries T2.      *)
(***************************************************************************)
C14_NewestStagingRowWins ==
    mg.status = "merged" =>
        \A s1, s2 \in DOMAIN mg.source :
            (/\ SameKey(mg.table, s1, s2)
             /\ ModifiedOf(mg.table, s1) < ModifiedOf(mg.table, s2)
             /\ \A t \in DOMAIN mg.before :
                    SameKey(mg.table, t, s2)
                        => ModifiedOf(mg.table, t) <= ModifiedOf(mg.table, s2))
            => /\ \E row \in DOMAIN mg.target : SameKey(mg.table, row, s2)
               /\ \A row \in DOMAIN mg.target :
                    SameKey(mg.table, row, s2)
                        => ModifiedOf(mg.table, row) = ModifiedOf(mg.table, s2)

\* the bag holds one row at most of each unique key
OneRowPerKey(table, bag) ==
    /\ \A row \in DOMAIN bag : bag[row] = 1
    /\ \A t, s \in DOMAIN bag : SameKey(table, t, s) => t = s

(***************************************************************************)
(* C24: after the merge statement has executed the destination holds at    *)
(* most one row of each unique key: a staging row of the key of a          *)
(* destination row, and older than it, is neither applied nor inserted.    *)
(* Stated for a destination and a staging table that each hold at most one *)
(* row of a key.                                                           *)
(***************************************************************************)
C24_OneRowPerKey ==
    ( /\ mg.status = "merged"
      /\ OneRowPerKey(mg.table, mg.before)
      /\ OneRowPerKey(mg.table, mg.source) )
    => OneRowPerKey(mg.table, mg.target)

(***************************************************************************)
(* SpecCtor: the construction of a Path, and of a Table on it.             *)
(***************************************************************************)
\* the segments a caller passes to Path
Segments ==
    { <<"d","b">>, <<"s","c","h">>, <<"t","b","l","_","1">>,
      <<"t","b","l","!">>, <<"a",".","b">> }

\* the columns a caller puts in the column groups
CtorColumns == {ColId, ColName}

InitCtor ==
    /\ db = [schemas |-> {}, tables |-> [p \in {} |-> EmptyBag], indexes |-> {}]
    /\ runs = <<>>
    /\ wr = Idle
    /\ clock = 0
    /\ mg = Idle
    /\ ctor = Idle

\* Path(database, schema, table)
NewPath ==
    /\ \E database, schema, table \in Segments :
        ctor' = [status |-> "path", path |-> Path(database, schema, table)]
    /\ UNCHANGED <<db, runs, clock, mg, wr>>

\* Table(source_path=..., destination_path=path, write_mode=..., ...)
NewTable ==
    /\ ctor.status = "path"
    /\ \E write_mode \in WriteModes,
          default_columns, unique_columns, non_unique_columns
                \in SeqsUpTo(CtorColumns, MaxGroupLen) :
        ctor' = [status |-> "table",
                 path |-> ctor.path,
                 table |-> Table(ctor.path, write_mode, default_columns,
                                 unique_columns, non_unique_columns, <<>>, clock)]
    /\ UNCHANGED <<db, runs, clock, mg, wr>>

NextCtor == NewPath \/ NewTable

SpecCtor == InitCtor /\ [][NextCtor]_vars

\* every character of every segment is in [A-Za-z0-9_]
SegmentsValid(path) ==
    \A seg \in {path.database, path.schema, path.table} :
        \A i \in DOMAIN seg : WordChar(seg[i])

(***************************************************************************)
(* C9: the construction of a Path fails when one of its segments holds a   *)
(* character outside [A-Za-z0-9_]: every Path constructed, and the         *)
(* destination path of every Table constructed, has valid segments only.   *)
(***************************************************************************)
C9_PathsValid ==
    /\ ctor.status = "path" => SegmentsValid(ctor.path)
    /\ ctor.status = "table" => SegmentsValid(ctor.table.destination_path)

(***************************************************************************)
(* C10: a Table whose column groups hold the same column name more than    *)
(* once is rejected at construction: the column list of every Table        *)
(* constructed has no duplicate names.                                     *)
(***************************************************************************)
C10_NoDuplicateColumns ==
    ctor.status = "table" =>
        \A i, j \in DOMAIN ctor.table._columns :
            ctor.table._columns[i].name = ctor.table._columns[j].name => i = j

(***************************************************************************)
(* SpecSql: the statements a constructed Table synthesizes. The Table is   *)
(* constructed at second 0; table_ddl, insert_sql and merge_ddl are then   *)
(* called on it in any order while the clock advances.                     *)
(***************************************************************************)
\* Table(..., enforce_primary_key=...)
WithPrimaryKey(table, enforce_primary_key) ==
    [table EXCEPT !.enforce_primary_key = enforce_primary_key]

InitSql ==
    /\ db = [schemas |-> {}, tables |-> [p \in {} |-> EmptyBag], indexes |-> {}]
    /\ runs = <<>>
    /\ wr = Idle
    /\ clock = 0
    /\ mg = Idle
    /\ \E shape \in MergeShapes, enforce_primary_key \in BOOLEAN :
        ctor = [status |-> "constructed",
                table |-> WithPrimaryKey(
                    Table(DestPath, "MERGE", shape[1], shape[2], shape[3], <<>>, clock),
                    enforce_primary_key),
                ddl |-> <<>>,
                last |-> Idle]

\* a second passes
Tick ==
    /\ ctor.status = "constructed"
    /\ clock < MaxClock
    /\ clock' = clock + 1
    /\ UNCHANGED <<db, runs, mg, ctor, wr>>

\* the two most recent entries of a sequence
LastTwo(seq) == IF Len(seq) <= 2 THEN seq ELSE SubSeq(seq, Len(seq) - 1, Len(seq))

\* table.table_ddl(path=...) with the destination or the temporary path
CallTableDdl ==
    /\ ctor.status = "constructed"
    /\ \E path \in {ctor.table.destination_path, ctor.table.temp_table_path} :
        ctor' = [ctor EXCEPT !.ddl =
                    LastTwo(@ \o <<[path |-> path, at |-> clock,
                                    out |-> table_ddl(ctor.table, path, clock)]>>)]
    /\ UNCHANGED <<db, runs, clock, mg, wr>>

\* table.insert_sql() and table.insert_sql(path=...)
CallInsertSql ==
    /\ ctor.status = "constructed"
    /\ \E kwargs \in {<<>>,
                       <<<<"path", ctor.table.destination_path>>>>,
                       <<<<"path", ctor.table.temp_table_path>>>>} :
        ctor' = [ctor EXCEPT !.last =
                    [fn |-> "insert_sql", kwargs |-> kwargs,
                     out |-> Table_insert_sql(ctor.table, kwargs)]]
    /\ UNCHANGED <<db, runs, clock, mg, wr>>

\* driver.merge_ddl(table=table)
CallMergeDdl ==
    /\ ctor.status = "constructed"
    /\ ctor' = [ctor EXCEPT !.last =
                    [fn |-> "merge_ddl", kwargs |-> <<>>,
                     out |-> merge_ddl(ctor.table)]]
    /\ UNCHANGED <<db, runs, clock, mg, wr>>

NextSql == Tick \/ CallTableDdl \/ CallInsertSql \/ CallMergeDdl

SpecSql == InitSql /\ [][NextSql]_vars

\* the column parts of a CREATE TABLE statement, in order
ColumnParts(ddl) == SelectSeq(ddl.ddl_parts, LAMBDA part : part.part = "column")

(***************************************************************************)
(* C11: the column list of a Table is its default columns, then its unique *)
(* columns, then its non-unique columns, each group in its own order, so   *)
(* its length is the sum of the three lengths; and table_ddl, insert_sql   *)
(* and merge_ddl, whenever called, list exactly these columns in this      *)
(* order.                                                                  *)
(***************************************************************************)
C11_ColumnListIsConcatenation ==
    ctor.status = "constructed" =>
        LET table == ctor.table
            d == table.default_columns
            u == table.unique_columns
            n == table.non_unique_columns
            expected ==
                [i \in 1..(Len(d) + Len(u) + Len(n)) |->
                    IF i <= Len(d) THEN d[i]
                    ELSE IF i <= Len(d) + Len(u) THEN u[i - Len(d)]
                    ELSE n[i - Len(d) - Len(u)]]
            names == [i \in DOMAIN expected |-> expected[i].name]
        IN  /\ table._columns = expected
            /\ Len(table._columns) = Len(d) + Len(u) + Len(n)
            /\ \A k \in DOMAIN ctor.ddl :
                    ColumnParts(ctor.ddl[k].out) =
                        [i \in DOMAIN expected |->
                            [part |-> "column",
                             text |-> column_definition(expected[i])]]
            /\ (ctor.last # Idle /\ ctor.last.fn = "insert_sql"
                    /\ ctor.last.out # TypeError)
                    => ctor.last.out.column_names = names
            /\ (ctor.last # Idle /\ ctor.last.fn = "merge_ddl"
                    /\ ctor.last.out # ValueError)
                    => ctor.last.out.insert_columns = names

\* a Table with three non-empty groups, after table_ddl was called twice and
\* merge_ddl last
C11_Witness ==
    /\ ctor.status = "constructed"
    /\ ctor.table.default_columns # <<>>
    /\ ctor.table.unique_columns # <<>>
    /\ ctor.table.non_unique_columns # <<>>
    /\ Len(ctor.ddl) = 2
    /\ ctor.last # Idle
    /\ ctor.last.fn = "merge_ddl"
    /\ ctor.last.out # ValueError

(***************************************************************************)
(* C12: insert_sql(path) renders an INSERT INTO the path it is given, with *)
(* every column of the column list once, in the order of the list, and one *)
(* placeholder for each; so the INSERT a MERGE run streams with, rendered  *)
(* for the temporary path, names the temporary path and never the          *)
(* destination path.                                                       *)
(***************************************************************************)
C12_InsertSqlNamesGivenPath ==
    (ctor.status = "constructed" /\ ctor.last # Idle
        /\ ctor.last.fn = "insert_sql" /\ ctor.last.kwargs # <<>>)
        => LET out == ctor.last.out
               path == ctor.last.kwargs[1][2]
           IN  /\ out # TypeError
               /\ out.stmt = "INSERT INTO"
               /\ out.path = path
               /\ out.column_names = Names(ctor.table._columns)
               /\ Len(out.placeholders) = Len(ctor.table._columns)
               /\ (path = ctor.table.temp_table_path
                        => out.path # ctor.table.destination_path)

(***************************************************************************)
(* C13: table_ddl is deterministic: two calls with the same path on the    *)
(* same Table return the same text whenever they are made, also when the   *)
(* primary key is enforced.                                                *)
(***************************************************************************)
C13_TableDdlDeterministic ==
    ctor.status = "constructed" =>
        \A i, j \in DOMAIN ctor.ddl :
            ctor.ddl[i].path = ctor.ddl[j].path => ctor.ddl[i].out = ctor.ddl[j].out

(***************************************************************************)
(* C17: the path of the temporary table is derived once, at construction:  *)
(* the database of the destination, the temporary schema, and the table    *)
(* name of the destination suffixed with the token of the construction     *)
(* second. It differs from the destination path, and the CREATE TABLE, the *)
(* INSERT and the USING clause that merge renders for the temporary table, *)
(* at whatever second, all name it.                                        *)
(***************************************************************************)
C17_StagingPathStable ==
    ctor.status = "constructed" =>
        LET table == ctor.table
            staging ==
                Path(table.destination_path.database, table.temp_table_schema,
                     table.destination_path.table \o <<"_">> \o now_format(0))
        IN  /\ table.temp_table_path = staging
            /\ staging # table.destination_path
            /\ \A k \in DOMAIN ctor.ddl :
                    ctor.ddl[k].path = table.temp_table_path
                        => ctor.ddl[k].out.path = staging
            /\ (ctor.last # Idle /\ ctor.last.fn = "merge_ddl"
                    /\ ctor.last.out # ValueError)
                    => ctor.last.out.source = staging
            /\ (ctor.last # Idle /\ ctor.last.fn = "insert_sql"
                    /\ ctor.last.kwargs = <<<<"path", table.temp_table_path>>>>)
                    => (ctor.last.out # TypeError /\ ctor.last.out.path = staging)

(***************************************************************************)
(* C15: the temporary table of a MERGE run is fresh: when the run comes to *)
(* stream rows into it, the table is there, this run has created it, and   *)
(* it holds no row, also when a table was at that path when the run        *)
(* started.                                                                *)
(***************************************************************************)
C15_StagingFresh ==
    \A r \in DOMAIN runs :
        LET run == runs[r]
            stg == run.table.temp_table_path
        IN  ( /\ run.method = "merge"
              /\ run.pc = [phase |-> "staging", step |-> "insert_sql"] )
            => /\ table_exists(db, stg)
               /\ Succeeded(run, "CREATE TABLE", stg) # {}
               /\ RowsOf(db, stg) = {}

(***************************************************************************)
(* C18: a MERGE run of a Table with indexes applies them to its temporary  *)
(* table in step 2, the same indexes having been applied to the            *)
(* destination in step 1. Stated for the runs that no driver failure       *)
(* ended: such a run has created every declared index on its temporary     *)
(* table.                                                                  *)
(***************************************************************************)
C18_StagingIndexesApplied ==
    \A r \in DOMAIN runs :
        LET run == runs[r]
            stg == run.table.temp_table_path
        IN  ( /\ run.method = "merge"
              /\ run.table.indexes # <<>>
              /\ Ended(run)
              /\ NoDriverFailure(run) )
            => Cardinality(Succeeded(run, "CREATE INDEX", stg))
                    = Len(run.table.indexes)

(***************************************************************************)
(* C19: apply_indexes creates the declared indexes that are not on the     *)
(* target table, and no other: an APPEND run that no driver failure ended  *)
(* leaves every declared index on its destination, having issued a CREATE  *)
(* INDEX for it exactly when the destination had none of its name when the *)
(* run started; a second APPEND run then issues no CREATE INDEX.           *)
(***************************************************************************)
C19_ApplyIndexesCreatesMissing ==
    \A r \in DOMAIN runs :
        LET run == runs[r]
            dest == run.table.destination_path
            missing ==
                {i \in DOMAIN run.table.indexes :
                    ~IndexOn(run.start, dest, run.table.indexes[i])}
        IN  ( /\ run.method = "append"
              /\ Ended(run)
              /\ NoDriverFailure(run) )
            => /\ \A i \in DOMAIN run.table.indexes :
                    IndexOn(db, dest, run.table.indexes[i])
               /\ Cardinality(Issued(run, "CREATE INDEX", dest))
                    = Cardinality(missing)

(***************************************************************************)
(* C20: every creation is checked first. With no other run interleaved, a  *)
(* CREATE SCHEMA is issued only when the schema does not exist at that     *)
(* moment, a CREATE TABLE only when the table does not exist and its       *)
(* schema does, and a CREATE INDEX only when a declared index is not on    *)
(* the table.                                                              *)
(***************************************************************************)
\* the statement of the log entry creates something that is not in d
CreationChecked(d, table, entry) ==
    /\ entry.op = "CREATE SCHEMA" => ~schema_exists(d, entry.path)
    /\ entry.op = "CREATE TABLE" =>
            (~table_exists(d, entry.path) /\ schema_exists(d, entry.path))
    /\ entry.op = "CREATE INDEX" =>
            \E i \in DOMAIN table.indexes : ~IndexOn(d, entry.path, table.indexes[i])

C20_CreationsChecked ==
    [][\A r \in DOMAIN runs :
        Len(runs'[r].log) > Len(runs[r].log)
            => CreationChecked(db, runs[r].table,
                               runs'[r].log[Len(runs'[r].log)])]_vars

\* a run has created the schema of its destination and then the destination
C20_Witness ==
    \E r \in DOMAIN runs :
        LET dest == runs[r].table.destination_path
        IN  /\ Succeeded(runs[r], "CREATE SCHEMA", dest) # {}
            /\ Succeeded(runs[r], "CREATE TABLE", dest) # {}
            /\ ~schema_exists(runs[r].start, dest)

(***************************************************************************)
(* SpecConc: merge called concurrently. The calls are made before any of   *)
(* the runs acts, with Tables of one configuration constructed in the same *)
(* second, so that they carry the same token; the driver calls of the runs *)
(* then interleave in every order. Nothing in the driver makes a run wait  *)
(* for another.                                                            *)
(***************************************************************************)
CallConc(r) ==
    /\ r = Len(runs) + 1
    /\ r <= MaxRuns
    /\ \A q \in DOMAIN runs : runs[q].log = <<>> /\ ~Ended(runs[q])
    /\ IF r = 1
       THEN \E shape \in RunShapes, direct \in BOOLEAN :
                Start(r, shape, "MERGE", direct, clock)
       ELSE Start(r, ShapeOf(runs[1].table), "MERGE", runs[1].drop_first, clock)
    /\ UNCHANGED <<db, mg, ctor, wr>>

NextConc == \E r \in 1..MaxRuns : CallConc(r) \/ Step(r)

SpecConc == Init /\ [][NextConc]_vars

\* run a has merged from, or dropped, the temporary table that run b has
\* streamed its rows into
RacedOnStaging(a, b) ==
    LET stg == a.table.temp_table_path
    IN  /\ b.table.temp_table_path = stg
        /\ Succeeded(b, "INSERT INTO", stg) # {}
        /\ \/ Succeeded(a, "MERGE INTO", a.table.destination_path) # {}
           \/ Succeeded(a, "DROP TABLE", stg) # {}

(***************************************************************************)
(* C16: concurrent MERGE runs of Tables with the same token race on the    *)
(* temporary table: they are not kept apart, so of two such runs that have *)
(* both ended, neither by a driver failure, one has merged from, or        *)
(* dropped, the temporary table the other streamed its rows into. Stated   *)
(* for Tables that have unique and update columns and no index.            *)
(***************************************************************************)
C16_RunsRaceOnStaging ==
    \A r, q \in DOMAIN runs :
        ( /\ r < q
          /\ runs[r].table.temp_table_path = runs[q].table.temp_table_path
          /\ MergeConfigured(runs[r].table)
          /\ runs[r].table.indexes = <<>>
          /\ Ended(runs[r]) /\ NoDriverFailure(runs[r])
          /\ Ended(runs[q]) /\ NoDriverFailure(runs[q]) )
        => RacedOnStaging(runs[r], runs[q]) \/ RacedOnStaging(runs[q], runs[r])

\* no run ever streams into, merges from or drops a temporary table
StagingNeverUsed ==
    \A r \in DOMAIN runs :
        /\ Issued(runs[r], "INSERT INTO", runs[r].table.temp_table_path) = {}
        /\ Issued(runs[r], "MERGE INTO", runs[r].table.destination_path) = {}
        /\ Issued(runs[r], "DROP TABLE", runs[r].table.temp_table_path) = {}

(***************************************************************************)
(* C21: create_table stays idempotent when runs interleave: a run without  *)
(* drop-first, interleaved with another against the same destination,      *)
(* issues no CREATE TABLE for a table that exists at that moment and no    *)
(* CREATE SCHEMA for a schema that exists at that moment, so that of two   *)
(* such runs at most one creates the table.                                *)
(***************************************************************************)
C21_NoCreateOfExisting ==
    [][\A r \in DOMAIN runs :
        ( /\ ~runs[r].drop_first
          /\ Len(runs'[r].log) > Len(runs[r].log) )
        => LET entry == runs'[r].log[Len(runs'[r].log)]
           IN  /\ entry.op = "CREATE TABLE" => ~table_exists(db, entry.path)
               /\ entry.op = "CREATE SCHEMA" => ~schema_exists(db, entry.path)]_vars

(***************************************************************************)
(* C22: an APPEND run only adds to the destination: it issues no DROP      *)
(* TABLE, and a destination table that was there when the run started is   *)
(* still there with every row it held, in at least as many copies, while   *)
(* the run goes on and after it has ended, by a failure or not.            *)
(***************************************************************************)
C22_AppendOnlyAdds ==
    \A r \in DOMAIN runs :
        LET run == runs[r]
            dest == run.table.destination_path
        IN  (run.method = "append" /\ r = Len(runs)) =>
            /\ \A i \in DOMAIN run.log : run.log[i].op # "DROP TABLE"
            /\ table_exists(run.start, dest) =>
                /\ table_exists(db, dest)
                /\ \A row \in RowsOf(run.start, dest) :
                        Copies(db.tables[dest], row)
                            >= Copies(run.start.tables[dest], row)

\* an APPEND run against a destination that held a row has ended
C22_Witness ==
    \E r \in DOMAIN runs :
        /\ runs[r].method = "append"
        /\ RowsOf(runs[r].start, runs[r].table.destination_path) # {}
        /\ Ended(runs[r])

(***************************************************************************)
(* SpecWrite: one call of write(sql, data, batch_size), the sql being the  *)
(* INSERT of insert_sql() for a Table with the columns id and name. A row  *)
(* of data is a dict: a sequence of <<key, value>> pairs in the order of   *)
(* its keys. The values of name are numbers here, as those of id.          *)
(***************************************************************************)
Min(a, b) == IF a <= b THEN a ELSE b

\* the values of the dict taken from its last key to its first
values_reversed(row) == [i \in 1..Len(row) |-> row[Len(row) + 1 - i][2]]

\* tuple(row.values()): the values in the order of the keys of the dict
values(row) == [i \in 1..Len(row) |-> row[i][2]]

\* batched that leaves out a last batch of fewer than n elements
RECURSIVE batched_full_only(_, _)
batched_full_only(seq, n) ==
    IF Len(seq) < n THEN <<>>
    ELSE <<SubSeq(seq, 1, n)>> \o batched_full_only(SubSeq(seq, n + 1, Len(seq)), n)

\* itertools.batched(iterable, n): tuples of n elements, the last one shorter
\* when the elements run out
RECURSIVE batched(_, _)
batched(seq, n) ==
    IF seq = <<>> THEN <<>>
    ELSE LET k == Min(n, Len(seq))
         IN  <<SubSeq(seq, 1, k)>> \o batched(SubSeq(seq, k + 1, Len(seq)), n)

\* the row INSERT INTO ... (c1, ..., cn) VALUES (?, ..., ?) stores for the
\* parameters params: the i-th parameter under the i-th column
InsertedRow(sql, params) ==
    [c \in Range(sql.column_names) |->
        params[CHOOSE i \in DOMAIN sql.column_names : sql.column_names[i] = c]]

\* dict(zip(columns, row)) for the row fetched of a stored row
read(stored, columns) ==
    LET row == [i \in DOMAIN columns |-> stored[columns[i]]]
    IN  [c \in Range(columns) |->
            row[CHOOSE i \in DOMAIN columns : columns[i] = c]]

WriteTable == Table(DestPath, "APPEND", <<>>, <<ColId>>, <<ColName>>, <<>>, 0)

\* the dicts a caller yields: the keys in either order
WriteRows ==
    { <<<<"id", i>>, <<"name", n>>>> : i \in {1, 2}, n \in {3} }
    \cup { <<<<"name", n>>, <<"id", i>>>> : i \in {1, 2}, n \in {3} }

InitWrite ==
    /\ db = [schemas |-> {}, tables |-> [p \in {} |-> EmptyBag], indexes |-> {}]
    /\ runs = <<>>
    /\ clock = 0
    /\ mg = Idle
    /\ ctor = Idle
    /\ \E data \in SeqsUpTo(WriteRows, MaxRows), batch_size \in 1..MaxBatchSize :
        wr = [status |-> "writing",
              sql |-> insert_sql(WriteTable),
              data |-> data,
              batch_size |-> batch_size,
              calls |-> <<>>,
              pending |-> <<>>,
              stored |-> <<>>]

\* the batches of the call: batched((tuple(row.values()) for row in data), batch_size)
Batches(w) == batched([i \in 1..Len(w.data) |-> values(w.data[i])], w.batch_size)

\* cursor.executemany(sql, rows) for the next batch
Executemany ==
    /\ wr.status = "writing"
    /\ Len(wr.calls) < Len(Batches(wr))
    /\ LET rows == Batches(wr)[Len(wr.calls) + 1]
       IN  \/ wr' = [wr EXCEPT !.calls = Append(@, rows),
                               !.pending = @ \o [i \in 1..Len(rows) |->
                                                    InsertedRow(wr.sql, rows[i])]]
           \/ wr' = [wr EXCEPT !.calls = Append(@, rows),
                               !.pending = <<>>,
                               !.status = "DriverError"]
    /\ UNCHANGED <<db, runs, clock, mg, ctor>>

\* the source is exhausted: the with block of the connection is left, which
\* commits what was inserted
Commit ==
    /\ wr.status = "writing"
    /\ Len(wr.calls) = Len(Batches(wr))
    /\ wr' = [wr EXCEPT !.status = "done", !.stored = wr.pending, !.pending = <<>>]
    /\ UNCHANGED <<db, runs, clock, mg, ctor>>

NextWrite == Executemany \/ Commit

SpecWrite == InitWrite /\ [][NextWrite]_vars

\* the batches one after the other
RECURSIVE Flatten(_)
Flatten(seqs) == IF seqs = <<>> THEN <<>> ELSE Head(seqs) \o Flatten(Tail(seqs))

(***************************************************************************)
(* C23: write consumes its row source forward, in batches of batch_size:   *)
(* the rows passed to the driver so far are the first rows of the source,  *)
(* each once and in the order of the source; a batch holds batch_size rows *)
(* at most and every batch but the last exactly batch_size; when write has *)
(* returned every row of the source was passed; and an empty source makes  *)
(* no call of executemany.                                                 *)
(***************************************************************************)
C23_WriteBatches ==
    wr.status # "idle" =>
        LET passed == Flatten(wr.calls)
        IN  /\ Len(passed) <= Len(wr.data)
            /\ \A i \in DOMAIN passed : passed[i] = values(wr.data[i])
            /\ \A k \in DOMAIN wr.calls :
                    /\ Len(wr.calls[k]) >= 1
                    /\ Len(wr.calls[k]) <= wr.batch_size
                    /\ k < Len(wr.calls) => Len(wr.calls[k]) = wr.batch_size
            /\ wr.status = "done" => Len(passed) = Len(wr.data)
            /\ wr.data = <<>> => wr.calls = <<>>

\* write has returned after a full batch and a last, shorter one
C23_Witness ==
    /\ wr.status = "done"
    /\ Len(wr.calls) >= 2
    /\ Len(wr.calls[Len(wr.calls)]) < wr.batch_size

\* the dict read back for the i-th row of the source
ReadBack(i) == read(wr.stored[i], wr.sql.column_names)

\* the dict read back has every key of the dict written, with its value
SameMapping(row, back) ==
    \A j \in DOMAIN row : row[j][1] \in DOMAIN back /\ back[row[j][1]] = row[j][2]

\* the keys of the dict are the columns of the statement, in their order
InColumnOrder(row, sql) == [j \in DOMAIN row |-> row[j][1]] = sql.column_names

(***************************************************************************)
(* C25: round trip. A dict written by write with the statement of          *)
(* insert_sql and read back equals the dict written, each value under the  *)
(* column of its key, whatever the order of the keys of the dict.          *)
(***************************************************************************)
C25_RoundTrip ==
    wr.status = "done" =>
        \A i \in DOMAIN wr.data : SameMapping(wr.data[i], ReadBack(i))

(***************************************************************************)
(* C25, amended: the round trip holds for the dicts whose keys are in the  *)
(* order of the column list of the Table.                                  *)
(***************************************************************************)
C25_RoundTripInColumnOrder ==
    wr.status = "done" =>
        /\ Len(wr.stored) = Len(wr.data)
        /\ \A i \in DOMAIN wr.data :
                InColumnOrder(wr.data[i], wr.sql)
                    => SameMapping(wr.data[i], ReadBack(i))

\* write has returned after two batches, the source holding a dict with its
\* keys in the order of the columns
C25_Witness ==
    /\ wr.status = "done"
    /\ Len(wr.calls) >= 2
    /\ \E i \in DOMAIN wr.data : InColumnOrder(wr.data[i], wr.sql)

(***************************************************************************)
(* SpecLive: runs that follow one another, as in Spec, called within one   *)
(* second, each of them going on: a call of the orchestrator is one thread *)
(* of control, and each of its driver calls returns or raises.             *)
(***************************************************************************)
CallLive(r) ==
    /\ r = Len(runs) + 1
    /\ r <= MaxRuns
    /\ \A q \in DOMAIN runs : Ended(runs[q])
    /\ IF r = 1
       THEN \E shape \in RunShapes, write_mode \in WriteModes, direct \in BOOLEAN :
                /\ direct => write_mode = "MERGE"
                /\ Start(r, shape, write_mode, direct, clock)
       ELSE Start(r, ShapeOf(runs[1].table), runs[1].table.write_mode,
                  runs[1].method = "merge" /\ runs[1].drop_first, clock)
    /\ UNCHANGED <<db, mg, ctor, wr>>

NextLive == \E r \in 1..MaxRuns : CallLive(r) \/ Step(r)

SpecLive == Init /\ [][NextLive]_vars /\ \A r \in 1..MaxRuns : WF_vars(Step(r))

\* the place of a position in the order of the steps of a run
Rank(pc) ==
    IF pc.step \in {"raised", "returned"} THEN 20
    ELSE (IF pc.phase = "destination" THEN 0 ELSE 10)
         + ( CASE pc.step = "table_exists" -> 1
               [] pc.step = "drop" -> 2
               [] pc.step = "schema_exists" -> 3
               [] pc.step = "create_schema" -> 4
               [] pc.step = "execute_ddl" -> 5
               [] pc.step = "apply_indexes" -> 6
               [] pc.step = "insert_sql" -> 7 )

\* a step of a run takes it to a later position
C26_Forward ==
    \A r \in DOMAIN runs :
        runs'[r] # runs[r] => Rank(runs'[r].pc) > Rank(runs[r].pc)

\* a run that was called ends
C26_Terminates ==
    \A r \in 1..MaxRuns :
        (r \in DOMAIN runs) ~> (r \in DOMAIN runs /\ Ended(runs[r]))

(***************************************************************************)
(* C26: a run is a linear state machine that terminates: every step takes  *)
(* it to a later position, so that it is at no position twice and never    *)
(* moves backwards, and every run of APPEND, TRUNCATE_WRITE or MERGE comes *)
(* to an end, having returned or halted at the step that raised.           *)
(***************************************************************************)
C26_LinearAndTerminates == [][C26_Forward]_vars /\ C26_Terminates

\* a MERGE run has come through the creation of its destination and of its
\* temporary table, and has ended
C26_Witness ==
    \E r \in DOMAIN runs :
        /\ runs[r].method = "merge"
        /\ Ended(runs[r])
        /\ Succeeded(runs[r], "CREATE TABLE", runs[r].table.destination_path) # {}
        /\ Succeeded(runs[r], "CREATE TABLE", runs[r].table.temp_table_path) # {}

====
